---- MODULE Spec2Model ----
(***************************************************************************)
(* A model of the link tooling of the Veralogix site repository:           *)
(*   scripts/update_relative_links.py      the root-relative rewriter      *)
(*   tests/comprehensive_link_checker.py   the read-only link auditor      *)
(*                                                                         *)
(* A Python str is a sequence of one-character strings, so that strip,     *)
(* startswith, split, urlsplit and urlunsplit are computed character by    *)
(* character.  A filesystem path is the sequence of its segments below     *)
(* "/", each segment a str.  Optional[str] is <<>> (None) or <<s>>.        *)
(* The filesystem is POSIX and holds no symbolic links.                    *)
(***************************************************************************)
EXTENDS Integers, Sequences, FiniteSets, TLC

VARIABLES
    fn_value,       \* pure calls: the attribute value handed to the function
    fn_base_file,   \* pure calls: the document that holds the value
    fn_result,      \* pure calls: what the function returned
    fn_pc,          \* pure calls: "input" before the call, "returned" after
    disk,           \* the content of every HTML document of the tree
    rw_pc,          \* rewriter: "idle" between passes, "loop" inside update_links
    dry_run,        \* rewriter: the dry_run argument of the current pass
    queue,          \* rewriter: the files find_html_files has yet to yield
    recorded,       \* rewriter: the change log printed so far in this pass
    updated_files,  \* rewriter: the counter of update_links
    writes,         \* rewriter: the files write_text was called on in this pass
    disk_at_start,  \* rewriter: the tree as the current pass found it
    history,        \* rewriter: one record per finished pass
    audit_root,     \* auditor: the --root argument
    audit_pc,       \* auditor: "start", "check_links" or "exited"
    audit_queue,    \* auditor: the files check_links has yet to visit
    broken_links,   \* auditor: file -> the broken references found in it
    exit_status,    \* auditor: what main returned
    inspected       \* auditor: the files check_links has read

fnVars == <<fn_value, fn_base_file, fn_result, fn_pc>>
rwVars == <<rw_pc, dry_run, queue, recorded, updated_files, writes,
            disk_at_start, history>>
auditVars == <<audit_root, audit_pc, audit_queue, broken_links, exit_status,
               inspected>>

vars == <<fnVars, disk, rwVars, auditVars>>

----------------------------------------------------------------------------
(* Bounds of the model *)

\* longest generated reference value handed to rewrite_url
MaxUrlLen == 5
\* longest generated srcset value handed to rewrite_srcset
MaxSrcsetLen == 6
\* how many times in succession update_links is run on the tree
MaxPasses == 2

----------------------------------------------------------------------------
(* Python values.  Operators that read an argument more than once bind it   *)
(* first, `v \in {s}`, so that the argument is computed once.               *)

None == <<>>
Some(s) == <<s>>
\* Python truthiness of an Optional[str]: None and "" are falsy
Truthy(opt) == \E v \in {opt} : v # None /\ v[1] # <<>>

\* the element of a one-element set
The(S) == CHOOSE x \in S : TRUE

AsciiLower == <<"a", "b", "c", "d", "e", "f", "g", "h", "i", "j", "k", "l", "m",
                "n", "o", "p", "q", "r", "s", "t", "u", "v", "w", "x", "y", "z">>
AsciiUpper == <<"A", "B", "C", "D", "E", "F", "G", "H", "I", "J", "K", "L", "M",
                "N", "O", "P", "Q", "R", "S", "T", "U", "V", "W", "X", "Y", "Z">>
Digits == <<"0", "1", "2", "3", "4", "5", "6", "7", "8", "9">>
Range(f) == {f[i] : i \in DOMAIN f}
AsciiAlpha == Range(AsciiLower) \cup Range(AsciiUpper)

\* str.strip() / str.split() whitespace
Whitespace == {" ", "\t", "\n", "\r", "\f"}

\* the members of a finite set of integers in increasing order
Ascending(S) ==
    The({[k \in 1..Cardinality(v) |->
             CHOOSE c \in v : Cardinality({d \in v : d < c}) = k - 1] : v \in {S}})

\* str.lower() on one character
lower_char(c) ==
    IF c \in Range(AsciiUpper)
    THEN AsciiLower[CHOOSE i \in DOMAIN AsciiUpper : AsciiUpper[i] = c]
    ELSE c
lower(s) == The({[i \in 1..Len(v) |-> lower_char(v[i])] : v \in {s}})

\* str.lstrip(chars)
lstrip(s, chars) ==
    The({IF \A i \in 1..Len(v) : v[i] \in chars
         THEN <<>>
         ELSE SubSeq(v,
                     CHOOSE i \in 1..Len(v) :
                         v[i] \notin chars /\ \A j \in 1..(i - 1) : v[j] \in chars,
                     Len(v)) : v \in {s}})

\* str.rstrip(chars)
rstrip(s, chars) ==
    The({IF \A i \in 1..Len(v) : v[i] \in chars
         THEN <<>>
         ELSE SubSeq(v, 1,
                     CHOOSE i \in 1..Len(v) :
                         v[i] \notin chars /\ \A j \in (i + 1)..Len(v) : v[j] \in chars)
         : v \in {s}})

strip(s) == rstrip(lstrip(s, Whitespace), Whitespace)

startswith(s, prefix) ==
    \E v \in {s}, p \in {prefix} : Len(p) <= Len(v) /\ SubSeq(v, 1, Len(p)) = p

startswith_any(s, prefixes) == \E v \in {s} : \E p \in prefixes : startswith(v, p)

endswith(s, tail) ==
    \E v \in {s}, t \in {tail} :
        Len(t) <= Len(v) /\ SubSeq(v, Len(v) - Len(t) + 1, Len(v)) = t

\* str.find for one character, 1-based; 0 when absent (Python's -1)
find(s, c) ==
    The({IF \E i \in 1..Len(v) : v[i] = c
         THEN CHOOSE i \in 1..Len(v) : v[i] = c /\ \A j \in 1..(i - 1) : v[j] # c
         ELSE 0 : v \in {s}})

\* first position whose character is in chars, Len(s)+1 when there is none
find_first_of(s, chars) ==
    The({IF \E i \in 1..Len(v) : v[i] \in chars
         THEN CHOOSE i \in 1..Len(v) :
                 v[i] \in chars /\ \A j \in 1..(i - 1) : v[j] \notin chars
         ELSE Len(v) + 1 : v \in {s}})

\* the pieces of v between the cut positions (0 and Len(v)+1 among them)
pieces(v, cuts) ==
    [k \in 1..(Len(cuts) - 1) |-> SubSeq(v, cuts[k] + 1, cuts[k + 1] - 1)]

\* str.split(sep) for a one-character separator
split(s, sep) ==
    The({The({pieces(v, cuts) :
                 cuts \in {Ascending({0, Len(v) + 1}
                                     \cup {i \in 1..Len(v) : v[i] = sep})}})
         : v \in {s}})

\* the token of v that starts at position start: up to the next whitespace
token_at(v, start) ==
    SubSeq(v, start,
           CHOOSE e \in start..Len(v) :
               /\ \A j \in start..e : v[j] \notin Whitespace
               /\ e = Len(v) \/ v[e + 1] \in Whitespace)

\* str.split() with no argument: runs of whitespace separate, no empty token
split_ws(s) ==
    The({The({[k \in 1..Len(starts) |-> token_at(v, starts[k])] :
                 starts \in {Ascending({i \in 1..Len(v) :
                                 /\ v[i] \notin Whitespace
                                 /\ i = 1 \/ v[i - 1] \in Whitespace})}})
         : v \in {s}})

RECURSIVE join_from(_, _, _)
join_from(sep, items, k) ==
    IF k > Len(items) THEN <<>>
    ELSE IF k = Len(items) THEN items[k]
    ELSE items[k] \o sep \o join_from(sep, items, k + 1)

\* sep.join(items)
join(sep, items) == The({join_from(p, v, 1) : p \in {sep}, v \in {items}})

\* whether needle occurs in s (Python's `needle in s`)
contains(s, needle) ==
    \E v \in {s}, n \in {needle} :
        \E i \in 1..(Len(v) - Len(n) + 1) : SubSeq(v, i, i + Len(n) - 1) = n

----------------------------------------------------------------------------
(* urllib.parse, as update_relative_links.py calls it *)

\* urllib.parse.scheme_chars
scheme_chars == AsciiAlpha \cup Range(Digits) \cup {"+", "-", "."}
\* urllib.parse._WHATWG_C0_CONTROL_OR_SPACE, the members a value here can hold
C0_CONTROL_OR_SPACE == {" ", "\t", "\n", "\r", "\f"}
\* urllib.parse._UNSAFE_URL_BYTES_TO_REMOVE
UNSAFE_URL_BYTES_TO_REMOVE == {"\t", "\r", "\n"}

IsSafeUrlByte(c) == c \notin UNSAFE_URL_BYTES_TO_REMOVE

\* the end of urlsplit: the fragment is split off at the first "#", then the
\* query at the first "?"
urlsplit_path(scheme, netloc, url) ==
    The({The({[scheme |-> scheme,
               netloc |-> netloc,
               path |-> IF q > 0 THEN SubSeq(before, 1, q - 1) ELSE before,
               query |-> IF q > 0 THEN SubSeq(before, q + 1, Len(before)) ELSE <<>>,
               fragment |-> IF h > 0 THEN SubSeq(url, h + 1, Len(url)) ELSE <<>>]
              : q \in {find(before, "?")}})
         : h \in {find(url, "#")},
           before \in {IF find(url, "#") > 0
                       THEN SubSeq(url, 1, find(url, "#") - 1)
                       ELSE url}})

\* the middle of urlsplit: a url that begins with "//" has a netloc, which
\* ends at the first of / ? # (_splitnetloc)
urlsplit_netloc(scheme, url) ==
    IF startswith(url, <<"/", "/">>)
    THEN The({urlsplit_path(scheme, SubSeq(url, 3, delim - 1),
                            SubSeq(url, delim, Len(url)))
              : delim \in {2 + find_first_of(SubSeq(url, 3, Len(url)),
                                             {"/", "?", "#"})}})
    ELSE urlsplit_path(scheme, <<>>, url)

\* the start of urlsplit on the cleaned url: the scheme is what precedes the
\* first ":", when it begins with a letter and holds only scheme_chars
urlsplit_scheme(url) ==
    The({IF /\ i > 1
            /\ url[1] \in AsciiAlpha
            /\ \A k \in 1..(i - 1) : url[k] \in scheme_chars
         THEN The({urlsplit_netloc(scheme, rest)
                   : scheme \in {lower(SubSeq(url, 1, i - 1))},
                     rest \in {SubSeq(url, i + 1, Len(url))}})
         ELSE urlsplit_netloc(<<>>, url)
         : i \in {find(url, ":")}})

\* urlsplit(url): scheme, netloc, path, query, fragment
urlsplit(url) ==
    The({urlsplit_scheme(u)
         : u \in {SelectSeq(lstrip(url, C0_CONTROL_OR_SPACE), IsSafeUrlByte)}})

\* urlunsplit((scheme, netloc, url, query, fragment)).  The rewriter passes
\* scheme "" and netloc "", for which the uses_netloc test is false.
urlunsplit(scheme, netloc, url, query, fragment) ==
    The({(IF s # <<>> THEN s \o <<":">> ELSE <<>>)
         \o (IF n # <<>>
             THEN <<"/", "/">> \o n
                  \o (IF u # <<>> /\ Head(u) # "/" THEN <<"/">> ELSE <<>>)
             ELSE <<>>)
         \o u
         \o (IF q # <<>> THEN <<"?">> \o q ELSE <<>>)
         \o (IF f # <<>> THEN <<"#">> \o f ELSE <<>>)
         : s \in {scheme}, n \in {netloc}, u \in {url}, q \in {query},
           f \in {fragment}})

----------------------------------------------------------------------------
(* pathlib on POSIX *)

os_sep == "/"
DotDot == <<".", ".">>
Dot == <<".">>

IsRealSegment(seg) == seg # <<>> /\ seg # Dot

\* the parts pathlib keeps of a relative path string: empty and "." segments
\* are dropped, ".." is kept
PathParts(s) == SelectSeq(split(s, "/"), IsRealSegment)

\* Path.parent
parent(p) == The({IF v = <<>> THEN v ELSE SubSeq(v, 1, Len(v) - 1) : v \in {p}})

RECURSIVE resolve_from(_, _, _)
\* the parts of p from the k-th on, applied to the path acc
resolve_from(acc, p, k) ==
    IF k > Len(p) THEN acc
    ELSE The({resolve_from(next, p, k + 1)
              : next \in {IF p[k] = DotDot THEN parent(acc) ELSE Append(acc, p[k])}})

\* Path.resolve() (non-strict) with no symbolic links: ".." is collapsed
\* lexically, whether or not the path exists, and stops at "/"
resolve(p) == The({resolve_from(<<>>, v, 1) : v \in {p}})

\* whether p is root or lies below it
IsUnder(p, root) ==
    \E v \in {p}, r \in {root} : Len(r) <= Len(v) /\ SubSeq(v, 1, Len(r)) = r

\* whether p lies below root
IsStrictlyUnder(p, root) ==
    \E v \in {p}, r \in {root} : Len(r) < Len(v) /\ SubSeq(v, 1, Len(r)) = r

\* os.path.relpath in place of Path.relative_to: a target outside other is
\* reached through ".." segments instead of raising
relative_to_relpath(target, other) ==
    The({The({Some([i \in 1..(Len(o) - common) |-> DotDot]
                   \o SubSeq(t, common + 1, Len(t)))
              : common \in {CHOOSE c \in 0..Len(o) :
                               /\ c <= Len(t)
                               /\ SubSeq(t, 1, c) = SubSeq(o, 1, c)
                               /\ \/ c = Len(o)
                                  \/ c = Len(t)
                                  \/ t[c + 1] # o[c + 1]}})
         : t \in {target}, o \in {other}})

\* Path.relative_to(other): None stands for the ValueError
relative_to(target, other) ==
    The({IF Len(o) <= Len(t) /\ SubSeq(t, 1, Len(o)) = o
         THEN Some(SubSeq(t, Len(o) + 1, Len(t)))
         ELSE None : t \in {target}, o \in {other}})

\* str(path) of a relative path
str_path(rel) == The({IF v = <<>> THEN Dot ELSE join(<<os_sep>>, v) : v \in {rel}})

----------------------------------------------------------------------------
(* scripts/update_relative_links.py *)

SKIP_PREFIXES == {
    <<"h", "t", "t", "p", ":", "/", "/">>,
    <<"h", "t", "t", "p", "s", ":", "/", "/">>,
    <<"m", "a", "i", "l", "t", "o", ":">>,
    <<"t", "e", "l", ":">>,
    <<"j", "a", "v", "a", "s", "c", "r", "i", "p", "t", ":">>,
    <<"d", "a", "t", "a", ":">>,
    <<"#">>,
    <<"/", "/">> }

\* a classifier that looks for the prefixes anywhere in the value
is_local_reference_anywhere(value) ==
    \E stripped \in {strip(value)} :
        IF stripped = <<>> THEN FALSE
        ELSE ~\E prefix \in SKIP_PREFIXES : contains(stripped, prefix)

is_local_reference(value) ==
    \E stripped \in {strip(value)} :
        IF stripped = <<>> THEN FALSE
        ELSE ~startswith_any(stripped, SKIP_PREFIXES)

\* value.replace(os.sep, "/")
normalise_path(value) ==
    The({[i \in 1..Len(v) |-> IF v[i] = os_sep THEN "/" ELSE v[i]] : v \in {value}})

\* a resolver that takes every path from root, whatever the document
resolve_target_from_root(path, base_file, root) ==
    resolve(root \o PathParts(lstrip(path, {"/"})))

\* lines 78-83: the filesystem target a candidate path resolves to
resolve_target(path, base_file, root) ==
    IF startswith(path, <<"/">>)
    THEN resolve(root \o PathParts(lstrip(path, {"/"})))
    ELSE resolve(parent(base_file) \o PathParts(path))

\* lines 87-95: the target made relative to root, rebuilt and compared
rewrite_target(raw_value, parts, target, root) ==
    The({IF relative_target = None THEN None
         ELSE The({IF rebuilt # raw_value THEN Some(rebuilt) ELSE None
                   : rebuilt \in {urlunsplit(<<>>, <<>>,
                                     normalise_path(str_path(relative_target[1])),
                                     parts.query, parts.fragment)}})
         : relative_target \in {relative_to(target, root)}})

\* lines 68-83: the value split; external and path-less values are refused
rewrite_split(raw_value, parts, base_file, root) ==
    IF parts.scheme # <<>> \/ parts.netloc # <<>> THEN None
    ELSE IF parts.path = <<>> THEN None
    ELSE The({rewrite_target(raw_value, parts, target, root)
              : target \in {resolve_target(parts.path, base_file, root)}})

\* lines 64-68: the value stripped and classified
rewrite_stripped(raw_value, base_file, root) ==
    IF raw_value = <<>> \/ ~is_local_reference(raw_value) THEN None
    ELSE The({rewrite_split(raw_value, parts, base_file, root)
              : parts \in {urlsplit(raw_value)}})

rewrite_url(value, base_file, root) ==
    The({rewrite_stripped(raw_value, base_file, root)
         : raw_value \in {strip(value)}})

\* lines 110-121 for one entry: its tokens, the URL rewritten when rewrite_url
\* gives a new one, and the change that makes
srcset_entry(entry, base_file, root) ==
    The({The({IF Truthy(rewritten_url)
              THEN [parts |-> <<rewritten_url[1]>> \o Tail(parts),
                    changes |-> << <<parts[1], rewritten_url[1]>> >>]
              ELSE [parts |-> parts, changes |-> <<>>]
              : rewritten_url \in {rewrite_url(parts[1], base_file, root)}})
         : parts \in {split_ws(entry)}})

RECURSIVE concat_from(_, _)
\* the sequences of seqs from the k-th on, concatenated
concat_from(seqs, k) ==
    IF k > Len(seqs) THEN <<>> ELSE seqs[k] \o concat_from(seqs, k + 1)

IsNonEmptyEntry(entry) == entry # <<>>

\* the loop of rewrite_srcset over the entries: new_entries and changes
srcset_loop(entries, base_file, root) ==
    The({[new_entries |-> [i \in 1..Len(done) |-> join(<<" ">>, done[i].parts)],
          changes |-> concat_from([i \in 1..Len(done) |-> done[i].changes], 1)]
         : done \in {The({[i \in 1..Len(kept) |-> srcset_entry(kept[i], base_file, root)]
                          : kept \in {SelectSeq(entries, IsNonEmptyEntry)}})}})

\* a rewrite_srcset that always returns the re-joined entries
rewrite_srcset_rejoined(value, base_file, root) ==
    The({[new_value |-> Some(join(<<",", " ">>, done.new_entries)),
          changes |-> done.changes]
         : done \in {The({srcset_loop([i \in 1..Len(raw) |-> strip(raw[i])],
                                      base_file, root)
                          : raw \in {split(value, ",")}})}})

rewrite_srcset(value, base_file, root) ==
    The({IF done.changes = <<>>
         THEN [new_value |-> None, changes |-> <<>>]
         ELSE [new_value |-> Some(join(<<",", " ">>, done.new_entries)),
               changes |-> done.changes]
         : done \in {The({srcset_loop([i \in 1..Len(raw) |-> strip(raw[i])],
                                      base_file, root)
                          : raw \in {split(value, ",")}})}})

----------------------------------------------------------------------------
(* The site tree the calls are made in *)

Root == << <<"w">>, <<"r">> >>
n_page_html == <<"p", "a", "g", "e", ".", "h", "t", "m", "l">>
n_sub == <<"s", "u", "b">>
RootPage == Root \o <<n_page_html>>
SubPage == Root \o <<n_sub, n_page_html>>
DocFiles == {RootPage, SubPage}

s_logo_from_sub == <<".", ".", "/", "a", "s", "s", "e", "t", "s", "/", "l", "o", "g", "o", ".", "p", "n", "g">>
s_logo_from_root == <<"a", "s", "s", "e", "t", "s", "/", "l", "o", "g", "o", ".", "p", "n", "g">>
s_srcset_sample == <<"a", ".", "p", "n", "g", " ", "1", "x", ",", " ", "h", "t", "t", "p", "s", ":", "/", "/", "c", "d", "n", "/", "b", ".", "p", "n", "g", " ", "2", "x">>
s_srcset_sample_sub == <<"s", "u", "b", "/", "a", ".", "p", "n", "g", " ", "1", "x", ",", " ", "h", "t", "t", "p", "s", ":", "/", "/", "c", "d", "n", "/", "b", ".", "p", "n", "g", " ", "2", "x">>
s_mailto == <<"m", "a", "i", "l", "t", "o", ":", "a", "@", "b", ".", "c", "o", "m">>
s_img_a_png == <<"i", "m", "g", "/", "a", ".", "p", "n", "g">>

StringsUpTo(alphabet, n) == UNION {[1..k -> alphabet] : k \in 0..n}

UrlAlphabet == {"a", ".", "/", "?", "#", ":"}
SampleUrls == {
    <<"h", "t", "t", "p", "s", ":", "/", "/", "x">>,
    <<"#", "f", "r", "a", "g">>,
    <<"m", "a", "i", "l", "t", "o", ":", "a", "@", "b", ".", "c", "o", "m">>,
    <<"t", "e", "l", ":", "1">>,
    <<"j", "a", "v", "a", "s", "c", "r", "i", "p", "t", ":", "x">>,
    <<"d", "a", "t", "a", ":", "x">>,
    <<"h", "t", "t", "p", ":", "/", "/", "x">>,
    <<"/", "/", "c", "d", "n", "/", "a", ".", "p", "n", "g">>,
    <<"H", "T", "T", "P", ":", "/", "/", "x">>,
    <<" ">>,
    <<" ", "\t">>,
    <<" ", "#", "t", "o", "p">>,
    <<" ", "a", ".", "p", "n", "g", " ">>,
    <<"i", "m", "g", "/", "a", ".", "p", "n", "g">>,
    <<".", ".", "/", "a", "s", "s", "e", "t", "s", "/", "l", "o", "g", "o", ".", "p", "n", "g">>,
    <<"/", "a", "s", "s", "e", "t", "s", "/", "l", "o", "g", "o", ".", "p", "n", "g">>,
    <<".", ".", "/", "i", "m", "g", "/", "a", ".", "p", "n", "g", "?", "x", "=", "1", "#", "t", "o", "p">>,
    <<".", ".", "/", ".", ".", "/", ".", ".", "/", "e", "t", "c">> }
UrlInputs == StringsUpTo(UrlAlphabet, MaxUrlLen) \cup SampleUrls

SrcsetAlphabet == {"a", "/", " ", ","}
SampleSrcsets == {
    <<"a", ".", "p", "n", "g", " ", "1", "x", ",", " ", "h", "t", "t", "p", "s", ":", "/", "/", "c", "d", "n", "/", "b", ".", "p", "n", "g", " ", "2", "x">>,
    <<"/", "a", ".", "p", "n", "g", " ", " ", "1", "x", ",", "b", ".", "p", "n", "g", "\t", "2", "x", " ", "3", "w">> }
SrcsetInputs == StringsUpTo(SrcsetAlphabet, MaxSrcsetLen) \cup SampleSrcsets

----------------------------------------------------------------------------
(* The filesystem below "/": directories and regular files *)

n_assets == <<"a", "s", "s", "e", "t", "s">>
n_logo_png == <<"l", "o", "g", "o", ".", "p", "n", "g">>
n_img == <<"i", "m", "g">>
n_a_png == <<"a", ".", "p", "n", "g">>
n_index_php == <<"i", "n", "d", "e", "x", ".", "p", "h", "p">>
IndexPhp == Root \o <<n_index_php>>

FsDirs == {<<>>, << <<"w">> >>, Root, Root \o <<n_sub>>, Root \o <<n_assets>>,
           Root \o <<n_img>>}
FsFiles == {RootPage, SubPage, IndexPhp,
            Root \o << <<"a">> >>,
            << <<"w">>, <<"a">> >>,
            Root \o <<n_assets, n_logo_png>>,
            Root \o <<n_img, n_a_png>>}

\* the operating system's walk of an un-normalised path, from its k-th
\* segment on: every segment but the last must name an existing directory,
\* ".." steps to the parent
RECURSIVE fs_walk(_, _, _)
fs_walk(cur, p, k) ==
    IF k > Len(p) THEN Some(cur)
    ELSE IF cur \notin FsDirs THEN None
    ELSE The({IF next \in FsDirs \cup FsFiles THEN fs_walk(next, p, k + 1) ELSE None
              : next \in {IF p[k] = DotDot THEN parent(cur) ELSE Append(cur, p[k])}})

\* Path.exists()
path_exists(p) == \E v \in {p} : fs_walk(<<>>, v, 1) # None
\* Path.is_file()
is_file(p) ==
    \E v \in {p} : \E found \in {fs_walk(<<>>, v, 1)} :
        found # None /\ found[1] \in FsFiles

----------------------------------------------------------------------------
(* Documents: a parsed document is the sequence of its tags in document     *)
(* order; a tag has a name and a map from attribute names to values.        *)
(* A file on disk is [decodable, tags]: a file that is not valid UTF-8      *)
(* raises UnicodeDecodeError in read_text.                                  *)

ATTRIBUTE_NAMES == <<"href", "src", "data-src", "poster", "srcset">>

Unchanged(tag) == [tag |-> tag, changes |-> <<>>]

\* lines 160-165: a srcset attribute
process_srcset_attribute(tag, attribute, value, file_path, root) ==
    The({IF Truthy(r.new_value)
         THEN [tag |-> [tag EXCEPT !.attrs[attribute] = r.new_value[1]],
               changes |-> [i \in 1..Len(r.changes) |->
                               <<attribute, r.changes[i][1], r.changes[i][2]>>]]
         ELSE Unchanged(tag)
         : r \in {rewrite_srcset(value, file_path, root)}})

\* lines 166-170: any other attribute
process_url_attribute(tag, attribute, value, file_path, root) ==
    The({IF Truthy(new_value)
         THEN [tag |-> [tag EXCEPT !.attrs[attribute] = new_value[1]],
               changes |-> << <<attribute, value, new_value[1]>> >>]
         ELSE Unchanged(tag)
         : new_value \in {rewrite_url(value, file_path, root)}})

\* lines 152-170 for one attribute of one tag
process_attribute(tag, attribute, file_path, root) ==
    IF attribute \notin DOMAIN tag.attrs THEN Unchanged(tag)
    ELSE IF attribute = "srcset"
    THEN process_srcset_attribute(tag, attribute, tag.attrs[attribute], file_path, root)
    ELSE process_url_attribute(tag, attribute, tag.attrs[attribute], file_path, root)

RECURSIVE process_tag(_, _, _, _, _)
\* the inner loop over ATTRIBUTE_NAMES for one tag, from the k-th name on;
\* changes holds what the earlier names recorded
process_tag(tag, changes, k, file_path, root) ==
    IF k > Len(ATTRIBUTE_NAMES) THEN [tag |-> tag, changes |-> changes]
    ELSE The({process_tag(step.tag, changes \o step.changes, k + 1, file_path, root)
              : step \in {process_attribute(tag, ATTRIBUTE_NAMES[k], file_path, root)}})

\* the loop over soup.find_all(True): the rewritten soup and recorded_changes
walk_tags(tags, file_path, root) ==
    The({[soup |-> [i \in 1..Len(done) |-> done[i].tag],
          recorded_changes |-> concat_from([i \in 1..Len(done) |-> done[i].changes], 1)]
         : done \in {The({[i \in 1..Len(v) |->
                              process_tag(v[i], <<>>, 1, file_path, root)]
                          : v \in {tags}})}})

----------------------------------------------------------------------------
(* The rewriter's driver: find_html_files, process_file, update_links *)

HTML_EXTENSIONS == {
    <<".", "h", "t", "m", "l">>,
    <<".", "h", "t", "m">>,
    <<".", "x", "h", "t", "m", "l">> }

\* the characters of the model in code point order, for Python's str order
CodePointOrder ==
    <<"\t", "\n", "\f", "\r", " ", "\"", "#", "%", "+", ",", "-", ".", "/">>
    \o Digits \o <<":", "=", "?", "@">> \o AsciiUpper \o <<"\\", "_">>
    \o AsciiLower
ord(c) == CHOOSE i \in DOMAIN CodePointOrder : CodePointOrder[i] = c

\* a < b for two str
RECURSIVE str_lt(_, _)
str_lt(a, b) ==
    IF b = <<>> THEN FALSE
    ELSE IF a = <<>> THEN TRUE
    ELSE IF Head(a) # Head(b) THEN ord(Head(a)) < ord(Head(b))
    ELSE str_lt(Tail(a), Tail(b))

\* p < q for two paths: their parts compared in order
RECURSIVE path_lt(_, _)
path_lt(p, q) ==
    IF q = <<>> THEN FALSE
    ELSE IF p = <<>> THEN TRUE
    ELSE IF Head(p) # Head(q) THEN str_lt(Head(p), Head(q))
    ELSE path_lt(Tail(p), Tail(q))

\* sorted(paths): each path at the position the number of paths before it
\* gives
sorted(S) ==
    The({[k \in 1..Cardinality(v) |->
             CHOOSE x \in v : Cardinality({y \in v : path_lt(y, x)}) = k - 1]
         : v \in {S}})

\* root.rglob("*"): everything below root
rglob(root) == {p \in FsDirs \cup FsFiles : IsStrictlyUnder(p, root)}

\* Path.suffix: the name from its last dot on, when that dot is neither the
\* first nor the last character
suffix(name) ==
    The({IF \E i \in 2..(Len(v) - 1) : v[i] = "." /\ \A j \in (i + 1)..Len(v) : v[j] # "."
         THEN SubSeq(v,
                     CHOOSE i \in 2..(Len(v) - 1) :
                         v[i] = "." /\ \A j \in (i + 1)..Len(v) : v[j] # ".",
                     Len(v))
         ELSE <<>> : v \in {name}})

IsHtmlFile(file_path) ==
    /\ is_file(file_path)
    /\ lower(suffix(file_path[Len(file_path)])) \in HTML_EXTENSIONS

find_html_files(root) == SelectSeq(sorted(rglob(root)), IsHtmlFile)

\* lines 175 and 143: the name a file is printed under
relative_name(file_path, root) ==
    normalise_path(str_path(relative_to(file_path, root)[1]))

\* a persist that writes in a dry run too
persist_always(d, file_path, soup, dry) ==
    [disk |-> [d EXCEPT ![file_path] = [decodable |-> TRUE, tags |-> soup]],
     wrote |-> {file_path}]

\* lines 180-181: write the document back unless this is a dry run.  What is
\* written is soup.decode(); parsing it again gives the same tags.
persist(d, file_path, soup, dry) ==
    IF ~dry
    THEN [disk |-> [d EXCEPT ![file_path] = [decodable |-> TRUE, tags |-> soup]],
          wrote |-> {file_path}]
    ELSE [disk |-> d, wrote |-> {}]

\* lines 172-183: the end of process_file once the tags have been walked
process_walked(file_path, root, dry, d, walked) ==
    IF walked.recorded_changes = <<>>
    THEN [disk |-> d, returned |-> FALSE, printed |-> <<>>, wrote |-> {}]
    ELSE The({[disk |-> saved.disk,
               returned |-> TRUE,
               printed |-> <<[file |-> relative_name(file_path, root),
                              changes |-> walked.recorded_changes]>>,
               wrote |-> saved.wrote]
              : saved \in {persist(d, file_path, walked.soup, dry)}})

\* process_file(file_path, root, dry_run) on the tree d: the tree after it,
\* the value returned, the block of the change log printed, the files written
process_file(file_path, root, dry, d) ==
    IF ~d[file_path].decodable
    THEN [disk |-> d, returned |-> FALSE, printed |-> <<>>, wrote |-> {}]
    ELSE The({process_walked(file_path, root, dry, d, walked)
              : walked \in {walk_tags(d[file_path].tags, file_path, root)}})

\* lines 194-196: the message of a pass that touched nothing
no_update_message(count, dry) ==
    IF count # 0 THEN "" 
    ELSE IF dry THEN "No local links required rewriting."
    ELSE "No files were updated."

----------------------------------------------------------------------------
(* tests/comprehensive_link_checker.py *)

AUDIT_HTML_EXTENSIONS == {<<".", "h", "t", "m", "l">>, <<".", "p", "h", "p">>}
AUDIT_SKIP_PREFIXES == {
    <<"h", "t", "t", "p", ":", "/", "/">>,
    <<"h", "t", "t", "p", "s", ":", "/", "/">>,
    <<"/", "/">>,
    <<"#">>,
    <<"t", "e", "l", ":">>,
    <<"m", "a", "i", "l", "t", "o", ":">>,
    <<"j", "a", "v", "a", "s", "c", "r", "i", "p", "t", ":">>,
    <<"d", "a", "t", "a", ":">> }

s_url_placeholder == <<"%", "u", "r", "l", "%">>
s_external_html == <<"e", "x", "t", "e", "r", "n", "a", "l", ".", "h", "t", "m", "l">>
s_backslash_quote == <<"\\", "\"">>

IsAuditedFile(file_path) ==
    \E ext \in AUDIT_HTML_EXTENSIONS :
        endswith(lower(file_path[Len(file_path)]), ext)

\* the files os.walk(root) lists, as a set
audit_html_files(root) ==
    {p \in FsFiles : IsStrictlyUnder(p, root) /\ IsAuditedFile(p)}

\* the orders find_html_files can return them in: os.walk is top-down, so
\* the files of a directory come before those of the directories below it;
\* the order inside one directory is the operating system's
audit_find_html_files(root) ==
    UNION {{s \in [1..Cardinality(files) -> files] :
               /\ \A i, j \in 1..Cardinality(files) : i # j => s[i] # s[j]
               /\ \A i, j \in 1..Cardinality(files) :
                     i < j => ~IsStrictlyUnder(parent(s[i]), parent(s[j]))}
           : files \in {audit_html_files(root)}}

should_skip(link) ==
    \E v \in {link} :
        IF v = <<>> THEN TRUE
        ELSE IF v = s_url_placeholder \/ contains(v, s_external_html) THEN TRUE
        ELSE startswith_any(v, AUDIT_SKIP_PREFIXES)

\* lines 50-53 and 63-66: the path a reference names, un-normalised
audit_resolve(reference, html_file, root) ==
    IF startswith(reference, <<"/">>)
    THEN root \o PathParts(lstrip(reference, {"/"}))
    ELSE parent(html_file) \o PathParts(reference)

\* lines 49-55: whether an anchor's href is broken
anchor_is_broken(link, html_file, root) ==
    \E v \in {link} :
        /\ ~should_skip(v)
        /\ \E link_without_query \in {split(v, "?")[1]} :
              ~path_exists(audit_resolve(link_without_query, html_file, root))

\* lines 59-68: whether an image's src is broken
image_is_broken(src, html_file, root) ==
    \E v \in {src} :
        /\ ~(should_skip(v) \/ contains(v, s_backslash_quote))
        /\ ~path_exists(audit_resolve(v, html_file, root))

IsAnchorWithHref(tag) == tag.name = "a" /\ "href" \in DOMAIN tag.attrs
IsImageWithSrc(tag) == tag.name = "img" /\ "src" \in DOMAIN tag.attrs

\* the members of seq at the positions in keep, in order
select_at(seq, keep) ==
    The({[k \in 1..Len(at) |-> seq[at[k]]] : at \in {Ascending(keep)}})

\* the references check_links appends for one document: the broken hrefs of
\* its anchors in document order, then the broken srcs of its images
broken_in_file(tags, html_file, root) ==
    The({select_at([i \in 1..Len(v) |-> v[i].attrs["href"]],
                   {i \in 1..Len(v) :
                       /\ IsAnchorWithHref(v[i])
                       /\ anchor_is_broken(v[i].attrs["href"], html_file, root)})
         \o select_at([i \in 1..Len(v) |-> v[i].attrs["src"]],
                      {i \in 1..Len(v) :
                          /\ IsImageWithSrc(v[i])
                          /\ image_is_broken(v[i].attrs["src"], html_file, root)})
         : v \in {tags}})

\* one iteration of the loop of check_links
check_links_step(broken, html_file, d, root) ==
    IF ~d[html_file].decodable THEN broken
    ELSE The({IF found = <<>> THEN broken ELSE (html_file :> found) @@ broken
              : found \in {broken_in_file(d[html_file].tags, html_file, root)}})

\* a main that reports success whatever check_links found
audit_exit_status_zero(broken) == 0

\* lines 95-104 of main: the exit status once check_links has returned
audit_exit_status(broken) == IF broken # <<>> THEN 1 ELSE 0

----------------------------------------------------------------------------
(* The trees the rewriter and the auditor are run on *)

HtmlDocs == {RootPage, SubPage, IndexPhp}
MissingRoot == << <<"w">>, <<"x">> >>

Tag(name, attrs) == [name |-> name, attrs |-> attrs]
Undecodable == [decodable |-> FALSE, tags |-> <<>>]
Doc(tags) == [decodable |-> TRUE, tags |-> tags]

s_https_example == <<"h", "t", "t", "p", "s", ":", "/", "/", "e", "x", "a", "m", "p", "l", "e", ".", "c", "o", "m">>
s_top == <<"#", "t", "o", "p">>
s_abs_sub_page_q == <<"/", "s", "u", "b", "/", "p", "a", "g", "e", ".", "h", "t", "m", "l", "?", "x", "=", "1", "#", "t", "o", "p">>
s_abs_img_a_png == <<"/", "i", "m", "g", "/", "a", ".", "p", "n", "g">>

t_img_logo_up == Tag("img", [src |-> s_logo_from_sub])
t_a_external == Tag("a", [href |-> s_https_example])
t_a_anchor == Tag("a", [href |-> s_top])
t_img_srcset == Tag("img", [src |-> s_logo_from_root, srcset |-> s_srcset_sample])
t_a_rooted == Tag("a", [href |-> s_abs_sub_page_q])
t_video == Tag("video", ("poster" :> s_abs_img_a_png) @@ ("data-src" :> s_img_a_png))

RwTags == {t_img_logo_up, t_a_external, t_a_anchor, t_img_srcset, t_a_rooted, t_video}
RwDocs ==
    {Doc(<<t>>) : t \in RwTags}
    \cup {Doc(<<t_a_external, t_a_anchor>>), Doc(<<t_img_logo_up, t_a_rooted>>),
          Doc(<<t_video, t_img_srcset>>), Undecodable}

s_page_section == <<"p", "a", "g", "e", ".", "h", "t", "m", "l", "#", "s", "e", "c", "t", "i", "o", "n">>
s_img_query == <<"i", "m", "g", "/", "a", ".", "p", "n", "g", "?", "v", "=", "2">>
s_missing_html == <<"m", "i", "s", "s", "i", "n", "g", ".", "h", "t", "m", "l">>
s_abs_page_q == <<"/", "p", "a", "g", "e", ".", "h", "t", "m", "l", "?", "x", "=", "1">>
s_abs_logo == <<"/", "a", "s", "s", "e", "t", "s", "/", "l", "o", "g", "o", ".", "p", "n", "g">>
s_dir_external == <<"x", "/", "e", "x", "t", "e", "r", "n", "a", "l", ".", "h", "t", "m", "l">>
s_quoted_src == <<"\\", "\"", "a", ".", "p", "n", "g">>
s_missing_via_dir == <<"n", "o", "/", ".", ".", "/", "p", "a", "g", "e", ".", "h", "t", "m", "l">>

u_a_section == Tag("a", [href |-> s_page_section])
u_img_query == Tag("img", [src |-> s_img_query])
u_a_missing == Tag("a", [href |-> s_missing_html])
u_a_rooted == Tag("a", [href |-> s_abs_page_q])
u_img_rooted == Tag("img", [src |-> s_abs_logo])
u_a_placeholder == Tag("a", [href |-> s_url_placeholder])
u_a_marker == Tag("a", [href |-> s_dir_external])
u_img_quoted == Tag("img", [src |-> s_quoted_src])
u_a_page == Tag("a", [href |-> n_page_html])
u_a_via_dir == Tag("a", [href |-> s_missing_via_dir])
u_link == Tag("link", [href |-> s_missing_html])

AuditTags == {u_a_section, u_img_query, u_a_missing, u_a_rooted, u_img_rooted,
              u_a_placeholder, u_a_marker, u_img_quoted, u_a_page, u_a_via_dir,
              u_link, t_a_external, t_a_anchor}
AuditDocs ==
    {Doc(<<t>>) : t \in AuditTags}
    \cup {Doc(<<t_a_external, t_a_anchor>>), Doc(<<u_img_query, u_a_missing>>),
          Doc(<<u_a_page, u_img_rooted>>), Undecodable}

\* the tree the single calls are made in
PlainDisk == [f \in HtmlDocs |-> Doc(<<t_a_anchor>>)]

FnIdle ==
    /\ fn_value = <<>>
    /\ fn_base_file = <<>>
    /\ fn_result = None
    /\ fn_pc = "off"

RwIdle ==
    /\ rw_pc = "off"
    /\ dry_run = FALSE
    /\ queue = <<>>
    /\ recorded = <<>>
    /\ updated_files = 0
    /\ writes = {}
    /\ disk_at_start = disk
    /\ history = <<>>

AuditIdle ==
    /\ audit_root = Root
    /\ audit_pc = "off"
    /\ audit_queue = <<>>
    /\ broken_links = <<>>
    /\ exit_status = -1
    /\ inspected = {}

----------------------------------------------------------------------------
(* Specification of the rewriter: update_links run on a tree, pass after    *)
(* pass                                                                     *)

Init ==
    /\ disk \in [HtmlDocs -> RwDocs]
    /\ disk[IndexPhp] = Doc(<<t_img_logo_up>>)
    /\ rw_pc = "idle"
    /\ dry_run = FALSE
    /\ queue = <<>>
    /\ recorded = <<>>
    /\ updated_files = 0
    /\ writes = {}
    /\ disk_at_start = disk
    /\ history = <<>>
    /\ FnIdle
    /\ AuditIdle

\* update_links(root, dry_run) is entered: lines 189-190
StartUpdateLinks(dry) ==
    /\ rw_pc = "idle"
    /\ Len(history) < MaxPasses
    /\ rw_pc' = "loop"
    /\ dry_run' = dry
    /\ queue' = find_html_files(Root)
    /\ recorded' = <<>>
    /\ updated_files' = 0
    /\ writes' = {}
    /\ disk_at_start' = disk
    /\ UNCHANGED <<disk, history, fnVars, auditVars>>

\* one iteration of the loop of update_links: process_file on the next file
ProcessFile ==
    /\ rw_pc = "loop"
    /\ queue # <<>>
    /\ \E done \in {process_file(Head(queue), Root, dry_run, disk)} :
           /\ disk' = done.disk
           /\ recorded' = recorded \o done.printed
           /\ writes' = writes \cup done.wrote
           /\ updated_files' = IF done.returned THEN updated_files + 1 ELSE updated_files
    /\ queue' = Tail(queue)
    /\ UNCHANGED <<rw_pc, dry_run, disk_at_start, history, fnVars, auditVars>>

\* the loop is over: lines 194-198
FinishUpdateLinks ==
    /\ rw_pc = "loop"
    /\ queue = <<>>
    /\ rw_pc' = "idle"
    /\ history' = Append(history,
                         [dry_run |-> dry_run,
                          returned |-> updated_files,
                          recorded |-> recorded,
                          message |-> no_update_message(updated_files, dry_run)])
    /\ UNCHANGED <<disk, dry_run, queue, recorded, updated_files, writes,
                   disk_at_start, fnVars, auditVars>>

Next ==
    \/ \E dry \in BOOLEAN : StartUpdateLinks(dry)
    \/ ProcessFile
    \/ FinishUpdateLinks

Spec == Init /\ [][Next]_vars

----------------------------------------------------------------------------
(* Specification of the auditor: main of comprehensive_link_checker.py *)

InitAudit ==
    /\ disk \in [HtmlDocs -> AuditDocs]
    /\ disk[IndexPhp] \in {Doc(<<u_a_missing>>), Doc(<<u_a_page>>)}
    /\ audit_root \in {Root, Root \o <<n_sub>>, MissingRoot}
    /\ audit_pc = "start"
    /\ audit_queue = <<>>
    /\ broken_links = <<>>
    /\ exit_status = -1
    /\ inspected = {}
    /\ FnIdle
    /\ RwIdle

\* lines 88-90: the root does not exist
AuditRootMissing ==
    /\ audit_pc = "start"
    /\ ~path_exists(audit_root)
    /\ exit_status' = 2
    /\ audit_pc' = "exited"
    /\ UNCHANGED <<audit_root, audit_queue, broken_links, inspected, disk,
                   fnVars, rwVars>>

\* line 92: find_html_files(root)
AuditFindFiles ==
    /\ audit_pc = "start"
    /\ path_exists(audit_root)
    /\ audit_queue' \in audit_find_html_files(audit_root)
    /\ audit_pc' = "check_links"
    /\ UNCHANGED <<audit_root, broken_links, exit_status, inspected, disk,
                   fnVars, rwVars>>

\* one iteration of the loop of check_links
AuditCheckFile ==
    /\ audit_pc = "check_links"
    /\ audit_queue # <<>>
    /\ broken_links' = check_links_step(broken_links, Head(audit_queue), disk, audit_root)
    /\ inspected' = inspected \cup {Head(audit_queue)}
    /\ audit_queue' = Tail(audit_queue)
    /\ UNCHANGED <<audit_root, audit_pc, exit_status, disk, fnVars, rwVars>>

\* lines 95-104: report and return
AuditReport ==
    /\ audit_pc = "check_links"
    /\ audit_queue = <<>>
    /\ exit_status' = audit_exit_status(broken_links)
    /\ audit_pc' = "exited"
    /\ UNCHANGED <<audit_root, audit_queue, broken_links, inspected, disk,
                   fnVars, rwVars>>

NextAudit ==
    \/ AuditRootMissing
    \/ AuditFindFiles
    \/ AuditCheckFile
    \/ AuditReport

SpecAudit == InitAudit /\ [][NextAudit]_vars

----------------------------------------------------------------------------
(* Specification of single calls of rewrite_url *)

InitUrl ==
    /\ fn_value \in UrlInputs
    /\ fn_base_file \in DocFiles
    /\ fn_result = None
    /\ fn_pc = "input"
    /\ disk = PlainDisk
    /\ RwIdle
    /\ AuditIdle

CallRewriteUrl ==
    /\ fn_pc = "input"
    /\ fn_result' = rewrite_url(fn_value, fn_base_file, Root)
    /\ fn_pc' = "returned"
    /\ UNCHANGED <<fn_value, fn_base_file, disk, rwVars, auditVars>>

NextUrl == CallRewriteUrl

SpecUrl == InitUrl /\ [][NextUrl]_vars

(* Specification of single calls of rewrite_srcset *)

InitSrcset ==
    /\ fn_value \in SrcsetInputs
    /\ fn_base_file \in DocFiles
    /\ fn_result = [new_value |-> None, changes |-> <<>>]
    /\ fn_pc = "input"
    /\ disk = PlainDisk
    /\ RwIdle
    /\ AuditIdle

CallRewriteSrcset ==
    /\ fn_pc = "input"
    /\ fn_result' = rewrite_srcset(fn_value, fn_base_file, Root)
    /\ fn_pc' = "returned"
    /\ UNCHANGED <<fn_value, fn_base_file, disk, rwVars, auditVars>>

NextSrcset == CallRewriteSrcset

SpecSrcset == InitSrcset /\ [][NextSrcset]_vars

----------------------------------------------------------------------------
(* What the claims speak of, stated apart from the rewriter's own steps *)

\* a Candidate: not skipped by the classifier, and with a path to resolve
IsCandidate(value) ==
    LET raw == strip(value)
        parts == urlsplit(raw)
    IN  /\ raw # <<>>
        /\ is_local_reference(raw)
        /\ parts.scheme = <<>> /\ parts.netloc = <<>>
        /\ parts.path # <<>>

\* the normalised target of a candidate: against Root for a leading "/",
\* against the directory of the document otherwise
ClaimTarget(value, base_file) ==
    LET path == urlsplit(strip(value)).path
    IN  IF Head(path) = "/"
        THEN resolve(Root \o PathParts(lstrip(path, {"/"})))
        ELSE resolve(parent(base_file) \o PathParts(path))

\* the reference the claims expect for a candidate: the target relative to
\* Root with "/" separators, then the query and the fragment
ClaimExpected(value, base_file) ==
    LET raw == strip(value)
        parts == urlsplit(raw)
        target == ClaimTarget(value, base_file)
        rel == SubSeq(target, Len(Root) + 1, Len(target))
        out == (IF rel = <<>> THEN <<".">> ELSE join(<<"/">>, rel))
               \o (IF parts.query # <<>> THEN <<"?">> \o parts.query ELSE <<>>)
               \o (IF parts.fragment # <<>> THEN <<"#">> \o parts.fragment ELSE <<>>)
    IN  IF ~IsUnder(target, Root) THEN None
        ELSE IF out = raw THEN None
        ELSE Some(out)

\* the path component of a reference: what precedes its first "?" or "#"
ClaimPathComponent(reference) ==
    SubSeq(reference, 1, find_first_of(reference, {"?", "#"}) - 1)

\* C2: whenever rewrite_url returns a new string, the path component of that
\* string, resolved against Root, lies inside Root and does not begin with
\* "../"; a candidate whose normalised target lies outside Root yields None.
C2_Containment ==
    fn_pc = "returned" =>
        /\ fn_result # None =>
             LET p == ClaimPathComponent(fn_result[1])
             IN  /\ ~startswith(p, <<".", ".", "/">>)
                 /\ p # DotDot
                 /\ IsUnder(resolve(Root \o PathParts(lstrip(p, {"/"}))), Root)
        /\ (IsCandidate(fn_value) /\ ~IsUnder(ClaimTarget(fn_value, fn_base_file), Root))
             => fn_result = None

\* a reference with a ".." segment was rewritten from the document below Root
C2_Witness ==
    /\ fn_pc = "returned"
    /\ fn_base_file = SubPage
    /\ contains(fn_value, DotDot)
    /\ fn_result # None

\* a reference whose ".." segments escape Root was refused
C2_WitnessEscape ==
    /\ fn_pc = "returned"
    /\ IsCandidate(fn_value)
    /\ ~IsUnder(ClaimTarget(fn_value, fn_base_file), Root)
    /\ fn_result = None

\* C3: for a candidate, rewrite_url resolves a path beginning with "/" as Root
\* joined with the path minus its leading slashes and any other path against
\* the directory of the document, collapses "." and ".." segments, and emits
\* the target relative to Root with "/" separators; root/sub/page.html with
\* src="../assets/logo.png" is rewritten to "assets/logo.png".
C3_RootRelativeOutput ==
    fn_pc = "returned" =>
        /\ IsCandidate(fn_value) => fn_result = ClaimExpected(fn_value, fn_base_file)
        /\ (fn_value = s_logo_from_sub /\ fn_base_file = SubPage)
             => fn_result = Some(s_logo_from_root)

C3_Witness ==
    /\ fn_pc = "returned"
    /\ fn_value = s_logo_from_sub
    /\ fn_base_file = SubPage
    /\ fn_result = Some(s_logo_from_root)

\* the text of a reference from its first "?" or "#" on
QueryFragmentSuffix(s) == SubSeq(s, find_first_of(s, {"?", "#"}), Len(s))

\* C4: whenever rewrite_url returns a new string for path[?query][#fragment],
\* that string is the rewritten path followed by exactly the original
\* "?query" and "#fragment" parts, unchanged.
C4_QueryFragmentVerbatim ==
    (fn_pc = "returned" /\ fn_result # None /\ fn_value = strip(fn_value))
        => QueryFragmentSuffix(fn_result[1]) = QueryFragmentSuffix(fn_value)

\* C6: a candidate whose normalised target does not exist on the filesystem
\* produces no rewrite.
C6_MissNoRewrite ==
    (/\ fn_pc = "returned"
     /\ IsCandidate(fn_value)
     /\ ~path_exists(ClaimTarget(fn_value, fn_base_file)))
        => fn_result = None

ClaimSkipPrefixes == {
    <<"h", "t", "t", "p", ":", "/", "/">>,
    <<"h", "t", "t", "p", "s", ":", "/", "/">>,
    <<"/", "/">>,
    <<"m", "a", "i", "l", "t", "o", ":">>,
    <<"t", "e", "l", ":">>,
    <<"j", "a", "v", "a", "s", "c", "r", "i", "p", "t", ":">>,
    <<"d", "a", "t", "a", ":">>,
    <<"#">> }

SkipShaped(value) ==
    LET t == strip(value)
    IN  \/ t = <<>>
        \/ startswith_any(t, ClaimSkipPrefixes)
        \/ urlsplit(t).scheme # <<>>
        \/ urlsplit(t).netloc # <<>>

BareRelative(value) ==
    /\ value # <<>>
    /\ Head(value) # "/"
    /\ \A i \in 1..Len(value) :
          value[i] \in AsciiAlpha \cup Range(Digits) \cup {".", "/", "-", "_"}

OneAnchor(value) == <<[name |-> "a", attrs |-> [href |-> value]]>>

\* C10: a value that is empty or whitespace-only, or after trimming starts
\* with a skip prefix, or parses with a scheme or network location, is
\* skipped: no rewrite, and a document holding only it records no change;
\* every bare relative path is a Candidate.
C10_Classification ==
    fn_pc = "returned" =>
        /\ SkipShaped(fn_value) =>
             /\ fn_result = None
             /\ walk_tags(OneAnchor(fn_value), fn_base_file, Root).recorded_changes = <<>>
        /\ BareRelative(fn_value) =>
             /\ is_local_reference(fn_value)
             /\ IsCandidate(fn_value)
             /\ fn_result = ClaimExpected(fn_value, fn_base_file)


\* a skip-prefixed value was left alone
C10_Witness ==
    /\ fn_pc = "returned"
    /\ fn_value = s_mailto
    /\ fn_result = None

\* a bare relative path went on to resolution and was rewritten
C10_WitnessCandidate ==
    /\ fn_pc = "returned"
    /\ fn_value = s_img_a_png
    /\ fn_base_file = SubPage
    /\ fn_result # None

\* the token lists of the non-empty entries of a srcset value
HasTokens(tokens) == tokens # <<>>
SrcsetEntries(value) ==
    LET raw == split(value, ",")
    IN  SelectSeq([i \in 1..Len(raw) |-> split_ws(raw[i])], HasTokens)

\* C5: rewrite_srcset changes only the URL token of the entries whose URL
\* rewrite_url rewrites; every other URL and every descriptor token is kept
\* verbatim and in the original entry order; when no URL is rewritten the
\* function returns no new value.
C5_SrcsetPartialRewrite ==
    fn_pc = "returned" =>
        LET entries == SrcsetEntries(fn_value)
            rewritten(i) == rewrite_url(entries[i][1], fn_base_file, Root)
            any == \E i \in 1..Len(entries) : rewritten(i) # None
        IN  /\ (fn_result.new_value = None) <=> ~any
            /\ ~any => fn_result.changes = <<>>
            /\ any =>
                 SrcsetEntries(fn_result.new_value[1]) =
                     [i \in 1..Len(entries) |->
                         IF rewritten(i) # None
                         THEN <<rewritten(i)[1]>> \o Tail(entries[i])
                         ELSE entries[i]]


\* only the first entry's URL changed, the external entry and both
\* descriptors were kept
C5_Witness ==
    /\ fn_pc = "returned"
    /\ fn_base_file = SubPage
    /\ fn_value = s_srcset_sample
    /\ fn_result.new_value = Some(s_srcset_sample_sub)

\* C1: after one pass of update_links that was not a dry run, the next pass
\* on the resulting tree records no attribute change in any document and
\* returns 0 updated files.
C1_SecondPassChangesNothing ==
    \A i \in 2..Len(history) :
        history[i - 1].dry_run = FALSE =>
            /\ history[i].returned = 0
            /\ history[i].recorded = <<>>

\* the documents the rewriter visits, and what the walk of one of them as it
\* stood when the pass began records
Visited == {f \in HtmlDocs : IsHtmlFile(f)}
WalkAtStart(f) == walk_tags(disk_at_start[f].tags, f, Root)
ChangedAtStart(f) ==
    /\ f \in Visited
    /\ disk_at_start[f].decodable
    /\ WalkAtStart(f).recorded_changes # <<>>
IsChangedAtStart(f) == ChangedAtStart(f)
LogAtStart ==
    LET changed == SelectSeq(sorted(Visited), IsChangedAtStart)
    IN  [i \in 1..Len(changed) |->
            [file |-> relative_name(changed[i], Root),
             changes |-> WalkAtStart(changed[i]).recorded_changes]]

\* C7: once a pass of update_links is over, a document was written if and
\* only if one of its attributes changed and dry_run is false; in a dry run
\* nothing was written and the tree is as it was; the change log and the
\* count of files are those of the tree as the pass found it, in either
\* mode; a document with no changed attribute is as it was.
C7_ConditionalPersistence ==
    (rw_pc = "idle" /\ history # <<>>) =>
        /\ \A f \in HtmlDocs : f \in writes <=> (ChangedAtStart(f) /\ ~dry_run)
        /\ dry_run => (writes = {} /\ disk = disk_at_start)
        /\ \A f \in HtmlDocs :
              IF f \in writes
              THEN disk[f] = Doc(WalkAtStart(f).soup)
              ELSE disk[f] = disk_at_start[f]
        /\ recorded = LogAtStart
        /\ updated_files = Cardinality({f \in HtmlDocs : ChangedAtStart(f)})

\* a dry run that logged changes and counted a file, and wrote nothing
C7_Witness ==
    /\ rw_pc = "idle"
    /\ history # <<>>
    /\ dry_run
    /\ recorded # <<>>
    /\ updated_files > 0
    /\ writes = {}
    /\ disk = disk_at_start

\* whether check_links recorded a broken reference in some document
SomeBrokenRecorded == \E f \in DOMAIN broken_links : broken_links[f] # <<>>

\* C8: main returns 2 if and only if the root does not exist, and then no
\* document was inspected; otherwise it returns 1 if and only if check_links
\* recorded a broken reference and 0 if and only if it recorded none; no
\* document is modified.
C8_ExitStatus ==
    /\ disk = disk_at_start
    /\ audit_pc = "exited" =>
          /\ exit_status \in {0, 1, 2}
          /\ exit_status = 2 <=> ~path_exists(audit_root)
          /\ exit_status = 2 => (inspected = {} /\ broken_links = <<>>)
          /\ path_exists(audit_root) =>
                /\ exit_status = 1 <=> SomeBrokenRecorded
                /\ exit_status = 0 <=> ~SomeBrokenRecorded
                /\ inspected = audit_html_files(audit_root)

\* a run over an existing root that found a broken reference
C8_Witness ==
    /\ audit_pc = "exited"
    /\ path_exists(audit_root)
    /\ SomeBrokenRecorded
    /\ exit_status = 1

\* whether the path component of a reference, taken from Root for a leading
\* "/" and from the directory of the document otherwise, does not exist
ClaimUnresolved(reference, html_file) ==
    LET path == ClaimPathComponent(reference)
    IN  ~path_exists(IF startswith(path, <<"/">>)
                     THEN audit_root \o PathParts(lstrip(path, {"/"}))
                     ELSE parent(html_file) \o PathParts(path))

\* whether check_links recorded the reference for the document
ClaimRecorded(reference, html_file) ==
    /\ html_file \in DOMAIN broken_links
    /\ \E i \in 1..Len(broken_links[html_file]) : broken_links[html_file][i] = reference

\* C9: once check_links has returned, an anchor href or image src of an
\* inspected document is recorded as broken if and only if the classifier
\* does not skip it and its path component, without query string and
\* fragment, does not exist.
C9_BrokenCriterion ==
    (audit_pc = "exited" /\ path_exists(audit_root)) =>
        \A f \in inspected :
            disk[f].decodable =>
                \A i \in 1..Len(disk[f].tags) :
                    LET tag == disk[f].tags[i]
                    IN  /\ IsAnchorWithHref(tag) =>
                             (ClaimRecorded(tag.attrs["href"], f)
                                 <=> (/\ ~should_skip(tag.attrs["href"])
                                      /\ ClaimUnresolved(tag.attrs["href"], f)))
                        /\ IsImageWithSrc(tag) =>
                             (ClaimRecorded(tag.attrs["src"], f)
                                 <=> (/\ ~should_skip(tag.attrs["src"])
                                      /\ ~contains(tag.attrs["src"], s_backslash_quote)
                                      /\ ClaimUnresolved(tag.attrs["src"], f)))

====
